---- MODULE Spec2Model ----
(***************************************************************************)
(* Model of enterprise/signals/white_signals.py: the WhiteNoise class      *)
(* factory (with the efac and equad variance functions) and the            *)
(* EcorrKernelNoise class factory with its three representations.          *)
(*                                                                         *)
(* Strings are sequences of one-character strings.  Observation indices    *)
(* are 1..NObs; slices keep Python's 0-based (start, stop) convention.     *)
(* Amplitudes 10**(2*x) are computed over natural log-amplitudes so that   *)
(* they stay integers.                                                     *)
(***************************************************************************)
EXTENDS Integers, Sequences, FiniteSets, TLC

\* ------------------------------------------------------------------ bounds
NObs == 4
MaxStrLen == 2

Obs == 1..NObs

\* the values a parameter takes in a params argument
Vals == {1, 2}

\* ----------------------------------------------------------------- strings
Chars == {"_", "a"}

\* code-point order of the characters used ('_' is 95, letters are 97..)
CharRank(c) ==
    CASE c = "_" -> 95
      [] c = "J" -> 74
      [] c = "a" -> 97
      [] c = "b" -> 98
      [] OTHER -> 120

RECURSIVE StrLess(_, _)
\* Python's str.__lt__: lexicographic comparison by code point
StrLess(s, t) ==
    IF t = <<>> THEN FALSE
    ELSE IF s = <<>> THEN TRUE
    ELSE IF Head(s) # Head(t) THEN CharRank(Head(s)) < CharRank(Head(t))
    ELSE StrLess(Tail(s), Tail(t))

Sep == <<"_">>

RECURSIVE JoinNoSep(_)
JoinNoSep(parts) ==
    IF parts = <<>> THEN <<>>
    ELSE Head(parts) \o JoinNoSep(Tail(parts))

RECURSIVE Join(_)
\* '_'.join(parts)
Join(parts) ==
    IF parts = <<>> THEN <<>>
    ELSE IF Len(parts) = 1 THEN parts[1]
    ELSE parts[1] \o Sep \o Join(Tail(parts))

\* [n for n in pnames if n]
NonEmpty(pnames) == SelectSeq(pnames, LAMBDA n : n # <<>>)

PrefixNoSep(pnames) == JoinNoSep(NonEmpty(pnames))

\* pname = '_'.join([n for n in pnames if n])
Prefix(pnames) == Join(NonEmpty(pnames))

RECURSIVE Insert(_, _)
Insert(k, sorted) ==
    IF sorted = <<>> THEN <<k>>
    ELSE IF StrLess(k, Head(sorted)) THEN <<k>> \o sorted
    ELSE <<Head(sorted)>> \o Insert(k, Tail(sorted))

RECURSIVE Sorted(_)
\* list(sorted(S)) for a set S of strings
Sorted(S) ==
    IF S = {} THEN <<>>
    ELSE LET k == CHOOSE x \in S : TRUE
         IN  Insert(k, Sorted(S \ {k}))

Range(f) == {f[x] : x \in DOMAIN f}

\* all orders in which a dict with the key set S can be iterated
Orders(S) == {o \in [1..Cardinality(S) -> S] : Range(o) = S}

\* ------------------------------------------------------ numeric primitives
RECURSIVE Pow10(_)
Pow10(n) == IF n <= 0 THEN 1 ELSE 10 * Pow10(n - 1)

RECURSIVE SumSeq(_)
SumSeq(s) == IF s = <<>> THEN 0 ELSE Head(s) + SumSeq(Tail(s))

RECURSIVE Concat(_)
\* sum(lists, []) and np.concatenate(lists)
Concat(ls) == IF ls = <<>> THEN <<>> ELSE Head(ls) \o Concat(Tail(ls))

ZeroVec == [i \in Obs |-> 0]
ZeroMat == [e \in Obs \X Obs |-> 0]

\* a[slc, slc] covers (i, j) : Python positions i-1 and j-1 lie in slc
InSlice(i, slc) == slc[1] <= i - 1 /\ i - 1 < slc[2]
SliceLen(slc) == slc[2] - slc[1]
InBlock(e, slc) == InSlice(e[1], slc) /\ InSlice(e[2], slc)
SliceEntries(slc) == {e \in Obs \X Obs : InBlock(e, slc)}

\* --------------------------------------------------- observation source
PsrName == <<"J">>
KeyA == <<"a">>
KeyB == <<"b">>

\* psr.toas: sorted TOAs; consecutive TOAs coincide or are one unit apart
ToasChoices ==
    {t \in [Obs -> 0..(NObs - 1)] :
        /\ t[1] = 0
        /\ \A i \in 1..(NObs - 1) : t[i + 1] - t[i] \in {0, 1}}

\* psr.toaerrs
Toaerrs == [i \in Obs |-> 1 + (i % 2)]

Masks == [Obs -> BOOLEAN]

\* sel.masks of a selection with one key and of a selection with two keys
MaskSets == [{KeyA} -> Masks] \cup [{KeyA, KeyB} -> Masks]

\* ----------------------------------------------------------- parameters
\* the name under which a key's parameter is looked up in params
ParamName(signame, key) == Prefix(<<PsrName, signame, key>>)

AllNames == {ParamName(<<>>, k) : k \in {KeyA, KeyB}}
ParamVectors == [AllNames -> Vals]

\* ----------------------------------------------------- epoch quantizer
Quantdt == 1

MaskedIdx(mask) == {i \in Obs : mask[i]}

RECURSIVE Buckets(_, _, _)
\* contiguous-in-sorted-order groups separated by a gap >= dt;
\* idx is the ascending sequence of masked observation indices
Buckets(idx, toas, acc) ==
    IF idx = <<>> THEN acc
    ELSE IF acc # <<>> /\
            toas[Head(idx)] - toas[acc[Len(acc)][Len(acc[Len(acc)])]] < Quantdt
         THEN Buckets(Tail(idx), toas,
                      [acc EXCEPT ![Len(acc)] = Append(@, Head(idx))])
         ELSE Buckets(Tail(idx), toas, Append(acc, <<Head(idx)>>))

RECURSIVE AscSeq(_)
AscSeq(S) ==
    IF S = {} THEN <<>>
    ELSE LET m == CHOOSE x \in S : \A y \in S : x <= y
         IN  <<m>> \o AscSeq(S \ {m})

\* utils.create_quantization_matrix(psr.toas[mask], nmin)[0]: the epochs of
\* the masked TOAs with at least nmin members, as index lists
create_quantization_matrix(toas, mask, nmin) ==
    SelectSeq(Buckets(AscSeq(MaskedIdx(mask)), toas, <<>>),
              LAMBDA b : Len(b) >= nmin)

\* utils.quant2ind: one slice per epoch, defined only for epochs that are
\* contiguous in the full observation array
Contiguous(b) == b[Len(b)] - b[1] + 1 = Len(b)
quant2ind(epochs) == [c \in 1..Len(epochs) |->
                        <<epochs[c][1] - 1, epochs[c][Len(epochs[c])]>>]

\* ------------------------------------------------------------------ state
VARIABLES
    phase,        \* "start", "class", "error", "ready", "failed"; "named"
    kind,         \* the class the factory returned: "none", "efac", "equad", "ecorr"
    method,       \* the method argument of EcorrKernelNoise
    self_keys,    \* self._keys
    self_masks,   \* self._masks, by key
    self_params,  \* self._params: the keys in the dict's iteration order
    self_slices,  \* self._slices, by key
    self_Ns,      \* self._Ns
    self_cache,   \* the cache entry of cache_call
    ret,          \* the object the last get_ndiag call returned
    recomputed,   \* whether the last get_ndiag call ran the method's body
    written,      \* the entries of self._Ns the last get_ndiag call assigned
    lastParams,   \* the params argument of the last get_ndiag call
    saved,        \* an earlier call's params and the result it returned
    pnames,       \* the list [psr.name, name, key] given to the prefix rule
    pname         \* the prefix built from pnames

vars == <<phase, kind, method, self_keys, self_masks, self_params, self_slices,
          self_Ns, self_cache, ret, recomputed, written, lastParams, saved,
          pnames, pname>>

signalVars == <<self_keys, self_masks, self_params, self_slices, self_Ns>>
callVars == <<self_cache, ret, recomputed, written, lastParams, saved>>
nameVars == <<pnames, pname>>

NoNs == <<>>
NoRet == [type |-> "none"]
NoCache == [valid |-> FALSE, key |-> <<>>, value |-> NoRet]
NoSaved == [valid |-> FALSE, params |-> [n \in AllNames |-> 1], value |-> NoRet]
SupportedMethods == {"sherman-morrison", "block", "sparse"}
MethodArgs == SupportedMethods \cup {"cholesky"}
WhiteName == <<>>

Init ==
    /\ phase = "start"
    /\ kind = "none"
    /\ method = ""
    /\ self_keys = <<>>
    /\ self_masks = <<>>
    /\ self_params = <<>>
    /\ self_slices = <<>>
    /\ self_Ns = NoNs
    /\ self_cache = NoCache
    /\ ret = NoRet
    /\ recomputed = FALSE
    /\ written = {}
    /\ lastParams = [n \in AllNames |-> 1]
    /\ saved = NoSaved
    /\ pnames = <<>>
    /\ pname = <<>>

\* ------------------------------------------------------- class factories
\* MeasurementNoise(): WhiteNoise(efac_ndiag(efac=efac), selection=selection)
MeasurementNoise ==
    /\ phase = "start"
    /\ phase' = "class"
    /\ kind' = "efac"
    /\ UNCHANGED <<method, signalVars, callVars, nameVars>>

\* EquadNoise(): WhiteNoise(equad_ndiag(log10_equad=log10_equad), ...)
EquadNoise ==
    /\ phase = "start"
    /\ phase' = "class"
    /\ kind' = "equad"
    /\ UNCHANGED <<method, signalVars, callVars, nameVars>>

EcorrKernelNoiseUnchecked(m) ==
    /\ phase = "start"
    /\ method' = m
    /\ phase' = "class"
    /\ kind' = "ecorr"
    /\ UNCHANGED <<signalVars, callVars, nameVars>>

\* EcorrKernelNoise(method=m): TypeError for an unsupported method, before
\* the class statement
EcorrKernelNoise(m) ==
    /\ phase = "start"
    /\ method' = m
    /\ IF m \notin SupportedMethods
       THEN /\ phase' = "error"
            /\ UNCHANGED kind
       ELSE /\ phase' = "class"
            /\ kind' = "ecorr"
    /\ UNCHANGED <<signalVars, callVars, nameVars>>

\* ----------------------------------------------------------- WhiteNoise
\* WhiteNoise.__init__ / _do_selection
WhiteNoise_init(sel) ==
    /\ phase = "class"
    /\ kind \in {"efac", "equad"}
    /\ phase' = "ready"
    /\ self_keys' = Sorted(DOMAIN sel)
    /\ self_masks' = sel
    /\ self_params' = Sorted(DOMAIN sel)
    /\ UNCHANGED <<kind, method, self_slices, self_Ns, callVars, nameVars>>

\* efac_ndiag: efac**2 * toaerrs**2
efac_ndiag(efac) == [i \in Obs |-> efac * efac * Toaerrs[i] * Toaerrs[i]]

\* equad_ndiag: np.ones_like(toas) * 10**(2*log10_equad)
equad_ndiag(log10_equad) == [i \in Obs |-> Pow10(2 * log10_equad)]

\* self._ndiag[key](params=params)
Ndiag(k, key, params) ==
    IF k = "efac" THEN efac_ndiag(params[ParamName(WhiteName, key)])
    ELSE equad_ndiag(params[ParamName(WhiteName, key)])

\* the value of  x * mask  for a boolean mask
TimesMask(v, mask) == [i \in Obs |-> IF mask[i] THEN v[i] ELSE 0]

RECURSIVE WhiteLoopOverwrite(_, _, _, _, _)
WhiteLoopOverwrite(k, keys, masks, params, acc) ==
    IF keys = <<>> THEN acc
    ELSE WhiteLoopOverwrite(k, Tail(keys), masks, params,
            TimesMask(Ndiag(k, Head(keys), params), masks[Head(keys)]))

RECURSIVE WhiteLoop(_, _, _, _, _)
\* ret = 0; for key, mask in zip(keys, masks): ret += ndiag[key](params)*mask
WhiteLoop(k, keys, masks, params, acc) ==
    IF keys = <<>> THEN acc
    ELSE LET c == TimesMask(Ndiag(k, Head(keys), params), masks[Head(keys)])
         IN  WhiteLoop(k, Tail(keys), masks, params,
                       [i \in Obs |-> acc[i] + c[i]])

\* the body of WhiteNoise.get_ndiag
WhiteNoise_get_ndiag(k, keys, masks, params) ==
    [type |-> "ndarray", vec |-> WhiteLoop(k, keys, masks, params, ZeroVec)]

\* ----------------------------------------------------- EcorrKernelNoise
EcorrName == <<>>
EcorrNmin == 2

\* self.get(p, params): the value of key p's log10_ecorr parameter
Get(p, params) == params[ParamName(EcorrName, p)]

AmpSingle(key, params) == Pow10(Get(key, params))

\* 10**(2*self.get(key, params))
Amp(key, params) == Pow10(2 * Get(key, params))

\* Umats: per key, the epochs of the key's masked TOAs
Umats(toas, sel, nmin) ==
    [key \in DOMAIN sel |-> create_quantization_matrix(toas, sel[key], nmin)]

\* quant2ind raises ValueError unless every epoch is a contiguous index range
SlicesDefined(toas, sel, nmin) ==
    \A key \in DOMAIN sel :
        \A c \in 1..Len(Umats(toas, sel, nmin)[key]) :
            Contiguous(Umats(toas, sel, nmin)[key][c])

EcorrSlicesNmin1(toas, sel) ==
    [key \in DOMAIN sel |-> quant2ind(Umats(toas, sel, 1)[key])]

\* self._slices as built by the loops of EcorrKernelNoise.__init__
EcorrSlices(toas, sel) ==
    [key \in DOMAIN sel |-> quant2ind(Umats(toas, sel, EcorrNmin)[key])]

\* all slices of all keys, with their keys
AllKeySlices(slices) ==
    UNION {{<<key, slices[key][c]>> : c \in 1..Len(slices[key])} :
              key \in DOMAIN slices}

\* _setup_sparse: Ns[slc, slc] = 1.0 for every slice longer than 1
setup_sparse(slices) ==
    [e \in Obs \X Obs |->
        IF \E ks \in AllKeySlices(slices) :
              SliceLen(ks[2]) > 1 /\ InBlock(e, ks[2])
        THEN 1 ELSE 0]

\* _setup: the sparse skeleton exists for the sparse method only
Setup(m, slices) == IF m = "sparse" THEN setup_sparse(slices) ELSE NoNs

\* Ns[slc, slc] = v
Assign(Ns, slc, v) ==
    [e \in Obs \X Obs |-> IF InBlock(e, slc) THEN v ELSE Ns[e]]

\* Ns[slc, slc] += v
AddTo(Ns, slc, v) ==
    [e \in Obs \X Obs |-> IF InBlock(e, slc) THEN Ns[e] + v ELSE Ns[e]]

RECURSIVE SliceLoopAdd(_, _, _)
SliceLoopAdd(Ns, slcs, v) ==
    IF slcs = <<>> THEN Ns
    ELSE SliceLoopAdd(IF SliceLen(Head(slcs)) > 1 THEN AddTo(Ns, Head(slcs), v)
                      ELSE Ns,
                      Tail(slcs), v)

RECURSIVE SliceLoop(_, _, _)
\* for slc in slices: if slc.stop - slc.start > 1: Ns[slc, slc] = v
SliceLoop(Ns, slcs, v) ==
    IF slcs = <<>> THEN Ns
    ELSE SliceLoop(IF SliceLen(Head(slcs)) > 1 THEN Assign(Ns, Head(slcs), v)
                   ELSE Ns,
                   Tail(slcs), v)

RECURSIVE get_ndiag_sparse_add(_, _, _, _)
get_ndiag_sparse_add(Ns, order, slices, params) ==
    IF order = <<>> THEN Ns
    ELSE get_ndiag_sparse_add(
            SliceLoopAdd(Ns, slices[Head(order)], Amp(Head(order), params)),
            Tail(order), slices, params)

RECURSIVE get_ndiag_sparse(_, _, _, _)
\* _get_ndiag_sparse: for p in self._params: for slc in self._slices[p]: ...
get_ndiag_sparse(Ns, order, slices, params) ==
    IF order = <<>> THEN Ns
    ELSE get_ndiag_sparse(
            SliceLoop(Ns, slices[Head(order)], Amp(Head(order), params)),
            Tail(order), slices, params)

\* the entries of Ns that _get_ndiag_sparse assigns
sparse_written(order, slices) ==
    UNION {SliceEntries(ks[2]) :
              ks \in {x \in AllKeySlices(slices) :
                         x[1] \in Range(order) /\ SliceLen(x[2]) > 1}}

get_jvecs_swapped(slices, params) ==
    LET keys == Sorted(DOMAIN slices)
        rev == [c \in 1..Len(keys) |-> keys[Len(keys) + 1 - c]]
    IN  <<Concat([c \in 1..Len(keys) |-> slices[keys[c]]]),
          Concat([c \in 1..Len(keys) |->
                    [d \in 1..Len(slices[keys[c]]) |-> Amp(rev[c], params)]])>>

\* _get_jvecs: (slices, jvec), keys in sorted order
get_jvecs(slices, params) ==
    LET keys == Sorted(DOMAIN slices)
    IN  <<Concat([c \in 1..Len(keys) |-> slices[keys[c]]]),
          Concat([c \in 1..Len(keys) |->
                    [d \in 1..Len(slices[keys[c]]) |-> Amp(keys[c], params)]])>>

\* _get_ndiag_sherman_morrison
get_ndiag_sherman_morrison(slices, params) ==
    LET sj == get_jvecs(slices, params)
    IN  [type |-> "ShermanMorrison", jvec |-> sj[2], slices |-> sj[1]]

\* np.ones((nb, nb)) * jv
OnesBlock(nb, jv) == [e \in (1..nb) \X (1..nb) |-> jv]

\* _get_ndiag_block
get_ndiag_block(slices, params) ==
    LET sj == get_jvecs(slices, params)
    IN  [type |-> "BlockMatrix",
         blocks |-> [c \in 1..Len(sj[1]) |-> OnesBlock(SliceLen(sj[1][c]), sj[2][c])],
         slices |-> sj[1]]

EcorrKernelNoise_init_fail ==
    /\ phase' = "failed"
    /\ UNCHANGED <<kind, method, signalVars, callVars, nameVars>>

\* EcorrKernelNoise.__init__ on a psr with the given toas, the selection
\* giving the masks sel and a parameter dict iterated in the given order.
\* self._masks is read by __init__ only; afterwards the key set of
\* self._slices stands for it.
EcorrKernelNoise_init(toas, sel, order) ==
    /\ phase = "class"
    /\ kind = "ecorr"
    /\ IF SlicesDefined(toas, sel, EcorrNmin)
       THEN /\ phase' = "ready"
            /\ self_params' = order
            /\ self_slices' = EcorrSlices(toas, sel)
            /\ self_Ns' = Setup(method, EcorrSlices(toas, sel))
            /\ UNCHANGED <<kind, method, self_keys, self_masks, callVars,
                           nameVars>>
       ELSE EcorrKernelNoise_init_fail

\* ------------------------------------------------------- get_ndiag, cached
\* the name argument of the factory that made the class
SignalName == IF kind = "ecorr" THEN EcorrName ELSE WhiteName

ndiag_params_first ==
    IF self_params = <<>> THEN {}
    ELSE {ParamName(SignalName, self_params[1])}

ndiag_params_all == AllNames

\* ndiag_params: [pp.name for pp in self.params]
ndiag_params == {ParamName(SignalName, k) : k \in Range(self_params)}

\* the cache key: the values of the owned parameters found in params
Owned(params) == [n \in ndiag_params |-> params[n]]

NoneResult == [type |-> "NoneType"]

\* the object the decorated method's body returns
Body(params) ==
    IF kind \in {"efac", "equad"}
    THEN WhiteNoise_get_ndiag(kind, self_keys, self_masks, params)
    ELSE IF method = "sherman-morrison"
    THEN get_ndiag_sherman_morrison(self_slices, params)
    ELSE IF method = "sparse"
    THEN [type |-> "csc_matrix"]
    ELSE IF method = "block"
    THEN get_ndiag_block(self_slices, params)
    ELSE NoneResult

IsSparse == kind = "ecorr" /\ method = "sparse"

\* a returned object with what it refers to: a csc_matrix result is self._Ns
RetVal == IF ret.type = "csc_matrix"
          THEN [type |-> "csc_matrix", mat |-> self_Ns]
          ELSE ret

CacheHit(params) == self_cache.valid /\ self_cache.key = Owned(params)

\* cache_call('ndiag_params') around get_ndiag
get_ndiag(params, remember) ==
    /\ phase = "ready"
    /\ IF CacheHit(params)
       THEN /\ ret' = self_cache.value
            /\ recomputed' = FALSE
            /\ written' = {}
            /\ UNCHANGED <<self_cache, self_Ns>>
       ELSE /\ ret' = Body(params)
            /\ recomputed' = TRUE
            /\ self_Ns' = IF IsSparse
                          THEN get_ndiag_sparse(self_Ns, self_params,
                                                self_slices, params)
                          ELSE self_Ns
            /\ written' = IF IsSparse
                          THEN sparse_written(self_params, self_slices)
                          ELSE {}
            /\ self_cache' = [valid |-> TRUE, key |-> Owned(params),
                              value |-> ret']
    /\ lastParams' = params
    /\ saved' = IF remember
                THEN [valid |-> TRUE, params |-> params, value |-> RetVal']
                ELSE saved
    /\ UNCHANGED <<phase, kind, method, self_keys, self_masks, self_params,
                   self_slices, nameVars>>

Factory ==
    \/ MeasurementNoise
    \/ EquadNoise
    \/ \E m \in MethodArgs : EcorrKernelNoise(m)

ConstructWhite ==
    /\ phase = "class"
    /\ kind \in {"efac", "equad"}
    /\ \E sel \in MaskSets : WhiteNoise_init(sel)

ConstructEcorr ==
    /\ phase = "class"
    /\ kind = "ecorr"
    /\ \E toas \in ToasChoices, sel \in MaskSets :
          \E order \in Orders(DOMAIN sel) : EcorrKernelNoise_init(toas, sel, order)

Construct == ConstructWhite \/ ConstructEcorr

\* the observer keeps one earlier call's result to compare later calls with
Call ==
    /\ phase = "ready"
    /\ \E params \in ParamVectors :
          \E remember \in (IF saved.valid THEN {FALSE} ELSE BOOLEAN) :
              get_ndiag(params, remember)

Next == Factory \/ Construct \/ Call

Spec == Init /\ [][Next]_vars

\* ------------------------------------------- the parameter-name prefix
RECURSIVE StrsUpTo(_)
StrsUpTo(n) ==
    IF n = 0 THEN {<<>>}
    ELSE StrsUpTo(n - 1) \cup
         {Append(w, c) : w \in {x \in StrsUpTo(n - 1) : Len(x) = n - 1}, c \in Chars}

Strs == StrsUpTo(MaxStrLen)
Triples == {<<a, b, c>> : a \in Strs, b \in Strs, c \in Strs}
PrefixTable == [t \in Triples |-> Prefix(t)]

InitName ==
    /\ phase = "start"
    /\ kind = "none"
    /\ method = ""
    /\ self_keys = <<>>
    /\ self_masks = <<>>
    /\ self_params = <<>>
    /\ self_slices = <<>>
    /\ self_Ns = NoNs
    /\ self_cache = NoCache
    /\ ret = NoRet
    /\ recomputed = FALSE
    /\ written = {}
    /\ lastParams = [n \in AllNames |-> 1]
    /\ saved = NoSaved
    /\ pnames \in Triples
    /\ pname = <<>>

\* pname = '_'.join([n for n in pnames if n]) in _do_selection
BuildPrefix ==
    /\ phase = "start"
    /\ phase' = "named"
    /\ pname' = Prefix(pnames)
    /\ UNCHANGED <<kind, method, signalVars, callVars, pnames>>

NextName == BuildPrefix

SpecName == InitName /\ [][NextName]_vars

\* ============================================================ properties
Called == ret.type # "none"

\* the keys of the constructed signal and the parameter names they own
SignalKeys == IF kind = "ecorr" THEN DOMAIN self_slices ELSE DOMAIN self_masks
OwnedNames == {ParamName(<<>>, k) : k \in SignalKeys}
SameOwned(p, q) == \A n \in OwnedNames : p[n] = q[n]

\* the dense matrix of a ShermanMorrison result: the sum over the ranges of
\* amplitude x ones-outer-ones
DenseSM(r) ==
    [e \in Obs \X Obs |->
        SumSeq([c \in 1..Len(r.slices) |->
                  IF InBlock(e, r.slices[c]) THEN r.jvec[c] ELSE 0])]

RECURSIVE Place(_, _, _)
Place(acc, blocks, slcs) ==
    IF slcs = <<>> THEN acc
    ELSE Place([e \in Obs \X Obs |->
                  IF InBlock(e, Head(slcs))
                  THEN Head(blocks)[<<e[1] - Head(slcs)[1], e[2] - Head(slcs)[1]>>]
                  ELSE acc[e]],
               Tail(blocks), Tail(slcs))

\* the dense matrix of a BlockMatrix result: each block placed at its range
DenseBlock(r) == Place(ZeroMat, r.blocks, r.slices)

\* the dense matrix the last returned object stands for
DenseRet ==
    IF ret.type = "ShermanMorrison" THEN DenseSM(ret)
    ELSE IF ret.type = "BlockMatrix" THEN DenseBlock(ret)
    ELSE IF ret.type = "csc_matrix" THEN self_Ns
    ELSE ZeroMat

EcorrCalled == kind = "ecorr" /\ phase = "ready" /\ Called

\* no observation index lies in two epoch ranges of the signal
DisjointEpochs ==
    \A x \in AllKeySlices(self_slices), y \in AllKeySlices(self_slices) :
        x # y => \A i \in Obs : ~(InSlice(i, x[2]) /\ InSlice(i, y[2]))

\* the (key, range) pairs, keys in sorted order, epochs in construction order
ExpKeys == SelectSeq(<<KeyA, KeyB>>, LAMBDA k : k \in DOMAIN self_slices)
ExpPairs ==
    Concat([c \in 1..Len(ExpKeys) |->
              [d \in 1..Len(self_slices[ExpKeys[c]]) |->
                  <<ExpKeys[c], self_slices[ExpKeys[c]][d]>>]])
ExpAmp(k, p) == Pow10(2 * p[ParamName(<<>>, k)])

\* ---- C1
\* C1: a get_ndiag call whose params agree with an earlier call's on every
\* parameter the signal owns returns a result equal to the earlier call's,
\* whatever calls happened in between.
C1_SameOwnedSameResult ==
    (phase = "ready" /\ saved.valid /\ SameOwned(lastParams, saved.params))
        => RetVal = saved.value

\* a sparse signal recomputed the remembered owned values after a call with
\* other owned values, from a params vector that is not the remembered one
C1_Witness ==
    /\ phase = "ready" /\ saved.valid /\ IsSparse
    /\ SameOwned(lastParams, saved.params)
    /\ lastParams # saved.params
    /\ recomputed
    /\ \E e \in Obs \X Obs : self_Ns[e] > 1

\* ---- C2
DenseAgree(p) ==
    LET sm == DenseSM(get_ndiag_sherman_morrison(self_slices, p))
        bl == DenseBlock(get_ndiag_block(self_slices, p))
    IN  /\ sm = bl
        /\ \A order \in Orders(DOMAIN self_slices) :
              get_ndiag_sparse(setup_sparse(self_slices), order, self_slices, p) = sm
        /\ DenseRet = sm

\* C2 as claimed: for the epoch structure of any constructed signal and the
\* params of the latest call, the dense matrices of the sherman-morrison,
\* sparse and block results are identical.
C2_Original == EcorrCalled => DenseAgree(lastParams)

\* C2 amended: the three dense matrices are identical whenever no two epoch
\* ranges of the signal overlap.
C2_DenseAgreeDisjoint == (EcorrCalled /\ DisjointEpochs) => DenseAgree(lastParams)

C2_Witness ==
    /\ EcorrCalled /\ DisjointEpochs
    /\ \A k \in {KeyA, KeyB} : k \in DOMAIN self_slices /\ self_slices[k] # <<>>
    /\ lastParams[ParamName(<<>>, KeyA)] # lastParams[ParamName(<<>>, KeyB)]

\* ---- C3
InEpoch(i) ==
    \E ks \in AllKeySlices(self_slices) : SliceLen(ks[2]) >= 2 /\ InSlice(i, ks[2])

\* C3: every observation index in no epoch of size >= 2 has an all-zero
\* row and column in the dense matrix of the result, for all three methods.
C3_OrphanZero ==
    EcorrCalled =>
        \A i \in Obs : ~InEpoch(i) =>
            \A j \in Obs : DenseRet[<<i, j>>] = 0 /\ DenseRet[<<j, i>>] = 0

C3_Witness ==
    /\ EcorrCalled
    /\ method = "block"
    /\ \E i \in Obs : ~InEpoch(i)
    /\ \E i \in Obs : InEpoch(i)

\* ---- C4
NameOf(k) == ParamName(<<>>, k)
OnlyChanged(A, p, q) ==
    /\ p[NameOf(A)] # q[NameOf(A)]
    /\ \A n \in AllNames : n # NameOf(A) => p[n] = q[n]

\* the entries of the sparse structure in B's epoch blocks
BlockEntries(B) ==
    UNION {SliceEntries(self_slices[B][c]) : c \in 1..Len(self_slices[B])}
\* the positions of B's ranges in the sherman-morrison and block results
Positions(B) == {c \in 1..Len(ExpPairs) : ExpPairs[c][1] = B}

\* what of the result is attributable to key B, outside the entries in E
PartOf(B, E) ==
    IF method = "sparse"
    THEN [e \in BlockEntries(B) \ E |-> self_Ns[e]]
    ELSE IF method = "sherman-morrison"
    THEN [c \in Positions(B) |-> <<ret.jvec[c], ret.slices[c]>>]
    ELSE [c \in Positions(B) |-> <<ret.blocks[c], ret.slices[c]>>]

\* C4 as claimed: a call that differs from the previous one only in A's
\* log-amplitude leaves everything attributable to B identical.
C4_Original ==
    [][EcorrCalled =>
         \A A \in SignalKeys, B \in SignalKeys :
            (A # B /\ OnlyChanged(A, lastParams, lastParams'))
                => PartOf(B, {})' = PartOf(B, {})]_vars

\* C4 amended: ... leaves identical B's amplitudes and blocks, and the
\* sparse entries of B's epoch blocks that lie in no epoch block of A.
C4_OtherKeyKept ==
    [][EcorrCalled =>
         \A A \in SignalKeys, B \in SignalKeys :
            (A # B /\ OnlyChanged(A, lastParams, lastParams'))
                => PartOf(B, BlockEntries(A))' = PartOf(B, BlockEntries(A))]_vars

C4_Witness ==
    /\ EcorrCalled /\ IsSparse /\ recomputed
    /\ saved.valid /\ OnlyChanged(KeyA, saved.params, lastParams)
    /\ KeyB \in DOMAIN self_slices
    /\ BlockEntries(KeyB) \ BlockEntries(KeyA) # {}
    /\ BlockEntries(KeyA) # {}

\* ---- C5
SignalEmpty ==
    /\ self_keys = <<>> /\ self_masks = <<>> /\ self_params = <<>>
    /\ self_slices = <<>> /\ self_Ns = NoNs

\* C5: EcorrKernelNoise called with an unsupported method ends in the error
\* state with no class, no selection, no slices and no sparse skeleton, the
\* method never replaced by a supported one.
C5_BadMethodFails ==
    (method # "" /\ method \notin SupportedMethods)
        => /\ phase = "error"
           /\ kind = "none"
           /\ SignalEmpty
           /\ ~Called

C5_Witness == phase = "error" /\ method = "cholesky"

\* ---- C6
RECURSIVE SumOverKeys(_, _)
SumOverKeys(S, i) ==
    IF S = {} THEN 0
    ELSE LET k == CHOOSE x \in S : TRUE
         IN  Ndiag(kind, k, lastParams)[i] + SumOverKeys(S \ {k}, i)

KeysSorted ==
    /\ Range(self_keys) = DOMAIN self_masks
    /\ \A a \in 1..Len(self_keys), b \in 1..Len(self_keys) :
          a < b => StrLess(self_keys[a], self_keys[b])

\* C6: the vector WhiteNoise.get_ndiag returns has at index i the sum of the
\* variance-function values of the keys whose mask is true at i (zero where
\* no mask is true), and the keys are held in sorted order.
C6_MaskedSum ==
    (kind \in {"efac", "equad"} /\ phase = "ready")
        => /\ KeysSorted
           /\ Called =>
                /\ ret.type = "ndarray"
                /\ \A i \in Obs :
                      ret.vec[i] =
                        SumOverKeys({k \in DOMAIN self_masks : self_masks[k][i]}, i)

C6_Witness ==
    /\ kind = "efac" /\ phase = "ready" /\ Called
    /\ DOMAIN self_masks = {KeyA, KeyB}
    /\ \E i \in Obs : self_masks[KeyA][i] /\ self_masks[KeyB][i]
    /\ \E i \in Obs : ~self_masks[KeyA][i] /\ ~self_masks[KeyB][i]
    /\ \E i \in Obs : self_masks[KeyA][i] /\ ~self_masks[KeyB][i]
    /\ lastParams[NameOf(KeyA)] # lastParams[NameOf(KeyB)]

\* ---- C7
HasSep(w) == \E c \in 1..Len(w) : w[c] = "_"
SepFree(t) == \A c \in 1..Len(t) : ~HasSep(t[c])

\* C7 as claimed: no other triple yields the prefix built from pnames.
C7_Original ==
    phase = "named" =>
        \A t \in Triples : t # pnames => PrefixTable[t] # pname

\* C7 amended: among triples none of whose components contains '_', a
\* triple yields the prefix built from pnames only if it has the same
\* sequence of non-empty components.
C7_SepFreeInjective ==
    (phase = "named" /\ SepFree(pnames)) =>
        \A t \in Triples :
            (SepFree(t) /\ PrefixTable[t] = pname) => NonEmpty(t) = NonEmpty(pnames)

C7_Witness ==
    /\ phase = "named" /\ SepFree(pnames)
    /\ \A c \in 1..3 : pnames[c] # <<>>
    /\ pnames[1] # pnames[2]
    /\ Len(pname) > 3

\* ---- C8
\* C8: a call whose params agree with the previous call's on every owned
\* parameter returns the previous result without running the body, also
\* when other parameters differ; the body runs only when an owned
\* parameter changed since the previous call (or there was none).
C8_CacheReuse ==
    [][phase = "ready" =>
         /\ (Called /\ SameOwned(lastParams, lastParams'))
                => (~recomputed' /\ ret' = ret /\ RetVal' = RetVal /\ written' = {})
         /\ recomputed' => (~Called \/ ~SameOwned(lastParams, lastParams'))]_vars

C8_Witness ==
    /\ phase = "ready" /\ Called /\ ~recomputed
    /\ saved.valid /\ saved.params # lastParams
    /\ SameOwned(saved.params, lastParams)
    /\ kind = "ecorr" /\ self_slices[KeyA] # <<>>

\* ---- C9
Changed(k) == lastParams'[NameOf(k)] # lastParams[NameOf(k)]
AllBlockEntries == UNION {BlockEntries(k) : k \in DOMAIN self_slices}
SparseRecompute == EcorrCalled /\ IsSparse /\ recomputed'

\* C9 as claimed: a recomputing sparse call writes only entries of keys
\* whose parameter changed; entries of unchanged keys are not written and
\* keep their values.
C9_Original ==
    [][SparseRecompute =>
         /\ written' \subseteq
               UNION {BlockEntries(k) : k \in {x \in SignalKeys : Changed(x)}}
         /\ \A k \in SignalKeys : ~Changed(k) =>
               \A e \in BlockEntries(k) : self_Ns'[e] = self_Ns[e]]_vars

\* C9 amended: a recomputing sparse call writes the entries of every key's
\* epoch blocks, changed or not; nothing else is written, and an entry all
\* of whose covering keys are unchanged keeps its value.
C9_WritesAllBlocks ==
    [][SparseRecompute =>
         /\ written' = AllBlockEntries
         /\ \A e \in (Obs \X Obs) \ AllBlockEntries : self_Ns'[e] = self_Ns[e]
         /\ \A e \in AllBlockEntries :
               (\A k \in SignalKeys : e \in BlockEntries(k) => ~Changed(k))
                   => self_Ns'[e] = self_Ns[e]]_vars

C9_Witness ==
    /\ EcorrCalled /\ IsSparse /\ recomputed
    /\ saved.valid /\ OnlyChanged(KeyB, saved.params, lastParams)
    /\ KeyB \in DOMAIN self_slices
    /\ BlockEntries(KeyA) # {} /\ BlockEntries(KeyB) # {}
    /\ written = AllBlockEntries

\* ---- C10
DenseAsSpecified ==
    /\ \A ks \in AllKeySlices(self_slices) :
          \A e \in SliceEntries(ks[2]) : DenseRet[e] = ExpAmp(ks[1], lastParams)
    /\ \A e \in Obs \X Obs :
          (\A ks \in AllKeySlices(self_slices) : ~InBlock(e, ks[2])) => DenseRet[e] = 0

PairedAsSpecified ==
    method \in {"sherman-morrison", "block"} =>
        /\ Len(ret.slices) = Len(ExpPairs)
        /\ \A c \in 1..Len(ExpPairs) :
              /\ ret.slices[c] = ExpPairs[c][2]
              /\ IF method = "sherman-morrison"
                 THEN ret.jvec[c] = ExpAmp(ExpPairs[c][1], lastParams)
                 ELSE ret.blocks[c] =
                        OnesBlock(SliceLen(ExpPairs[c][2]),
                                  ExpAmp(ExpPairs[c][1], lastParams))
        /\ IF method = "sherman-morrison"
           THEN Len(ret.jvec) = Len(ExpPairs)
           ELSE Len(ret.blocks) = Len(ExpPairs)

\* C10 as claimed: after any calls, the dense matrix of the result is
\* 10^(2 x_K) on every epoch block of every key K (x_K from the latest
\* params) and zero elsewhere, and amplitudes or blocks are paired with the
\* ranges, keys sorted, epochs in construction order.
C10_Original == EcorrCalled => (DenseAsSpecified /\ PairedAsSpecified)

\* C10 amended: the same, for signals no two of whose epoch ranges overlap;
\* the pairing holds for every signal.
C10_DenseDisjoint ==
    EcorrCalled => (PairedAsSpecified /\ (DisjointEpochs => DenseAsSpecified))

C10_Witness ==
    /\ EcorrCalled /\ DisjointEpochs /\ method = "sherman-morrison"
    /\ Len(ret.slices) >= 2
    /\ \E c \in 1..Len(ExpPairs) : ExpPairs[c][1] = KeyB
    /\ \E c \in 1..Len(ExpPairs) : ExpPairs[c][1] = KeyA
    /\ lastParams[NameOf(KeyA)] # lastParams[NameOf(KeyB)]
    /\ ~recomputed

====
